---- MODULE Spec2Model ----
(***************************************************************************)
(* CImageLoaderTGA (irr/src/CImageLoaderTGA.cpp): isALoadableFileFormat,   *)
(* loadImage and loadCompressedImage as a state machine.                   *)
(*                                                                         *)
(* 32-bit quantities (imageSize, currentByte, bytesToRead) are kept as     *)
(* pairs <<hi, lo>> of 16-bit limbs (value = hi * 65536 + lo), because     *)
(* TLC's integers are themselves 32-bit: an exact sum or product keeps an  *)
(* unbounded hi limb, and Wrap32 cuts it to the u32 the code holds.        *)
(*                                                                         *)
(* A byte that was allocated but never written is Uninit; a palette slot   *)
(* never written is PalUnset.  Both stand for an indeterminate value.       *)
(***************************************************************************)
EXTENDS Integers, Sequences, FiniteSets, TLC

VARIABLES
    file,        \* the io::IReadFile: [size, footer] of the whole file and what lies ahead
                 \* of the cursor: [hasHeader, hdr] the 18 header bytes, body the bytes after them
    pos,         \* the read cursor, as an offset from the start of the file
    pc,          \* position in loadImage / loadCompressedImage
    header,      \* STGAHeader header (loadImage local)
    palette,     \* u32 *palette contents: index -> <<A, R, G, B>>
    colorMap,    \* u8 *colorMap contents
    data,        \* u8 *data contents (its first DataWindow bytes): index -> byte
    imageSize,   \* the size data was allocated with (limb pair)
    currentByte, \* loadCompressedImage's write offset (limb pair, u32)
    nalloc,      \* buffer name -> number of new[] / new performed
    nfree,       \* buffer name -> number of delete[] performed on a non-null pointer
    log,         \* os::Printer::log calls so far: sequence of [msg, level]
    result,      \* "pending" until loadImage returns, then "absent" or "image"
    image,       \* the CImage built: [format, fn, paletteNull, src]
    loadable,    \* what isALoadableFileFormat returned: "notCalled", TRUE or FALSE
    gotHeader,   \* ghost: the header read delivered the 18 bytes
    headerEnd,   \* ghost: the cursor after the header read
    stream,      \* ghost: the first StreamWindow bytes that lay ahead when the RLE loop was entered
    shortRead,   \* ghost: some file->read delivered fewer bytes than requested
    maxWrite,    \* ghost: one past the highest index written through data so far (exact, limb pair)
    overrun,     \* ghost: the first RLE step that would have written past the buffer: [kind, at]
    iters        \* ghost: packets consumed by the RLE loop

vars == <<file, pos, pc, header, palette, colorMap, data, imageSize, currentByte,
          nalloc, nfree, log, result, image, loadable, gotHeader, headerEnd, stream,
          shortRead, maxWrite, overrun, iters>>

----------------------------------------------------------------------------
(* Bounds of the model *)

\* image widths and heights 1..MaxDim are enumerated (besides the oversize ones)
MaxDim == 2
\* pixel streams are all byte sequences of length 0..MaxStream over ByteVals
MaxStream == 3
\* the model keeps the first DataWindow bytes of the pixel buffer
DataWindow == 16
\* the RLE loop is followed for at most MaxPackets packets
MaxPackets == 8
\* the stream ghost keeps the first StreamWindow bytes
StreamWindow == 32

----------------------------------------------------------------------------
(* Limb arithmetic *)

Limb == 65536

Big(n) == <<n \div Limb, n % Limb>>

BigToInt(b) == b[1] * Limb + b[2]

\* exact b + n, for an Int n >= 0
BigAdd(b, n) == <<b[1] + ((b[2] + n) \div Limb), (b[2] + n) % Limb>>

\* exact n * k, for Ints n, k >= 0 with k small
BigMul(n, k) == <<(n \div Limb) * k + (((n % Limb) * k) \div Limb), ((n % Limb) * k) % Limb>>

BigLT(a, b) == a[1] < b[1] \/ (a[1] = b[1] /\ a[2] < b[2])

BigLE(a, b) == a = b \/ BigLT(a, b)

BigMax(a, b) == IF BigLT(a, b) THEN b ELSE a

BigMin(a, b) == IF BigLT(a, b) THEN a ELSE b

\* the value a u32 holds
Wrap32(b) == <<b[1] % Limb, b[2]>>

\* 2^32, one past the highest index a u32 can hold
U32Limit == <<Limb, 0>>

\* whether an exact value is representable as s32
FitsS32(b) == b[1] < 32768

MAX(x, y) == IF x > y THEN x ELSE y

Min(x, y) == IF x < y THEN x ELSE y

RECURSIVE Repeat(_, _)
Repeat(sample, n) == IF n = 0 THEN <<>> ELSE sample \o Repeat(sample, n - 1)

Prefix(s, n) == SubSeq(s, 1, Min(n, Len(s)))

----------------------------------------------------------------------------
(* Memory *)

Uninit == -1

PalUnset == <<Uninit, Uninit, Uninit, Uninit>>

Buffers == {"palette", "colorMap", "data", "image"}

\* new u8[n]: n indeterminate bytes
NewBytes(n) == [i \in 0 .. n - 1 |-> Uninit]

\* the part of a buffer of (limb) size sz the model keeps
WindowLen(sz) == IF BigLT(sz, Big(DataWindow)) THEN BigToInt(sz) ELSE DataWindow

\* buf after file->read(&buf[off], n) delivered bytes: they lie at off and up,
\* contiguously (off a limb pair)
Store(buf, off, bytes) ==
    [i \in DOMAIN buf |->
        IF off[1] = 0 /\ off[2] <= i /\ i < off[2] + Len(bytes)
        THEN bytes[i - off[2] + 1]
        ELSE buf[i]]

\* buf after buf[off + e] = bytes[e] for e = 0 .. n - 1, one byte at a time with
\* the index off + e computed in u32: an index that passes 2^32 - 1 comes back to 0
StoreWrapped(buf, off, bytes) ==
    [i \in DOMAIN buf |->
        LET hits == {e \in 1 .. Len(bytes) : Wrap32(BigAdd(off, e - 1)) = Big(i)}
        IN  IF hits = {} THEN buf[i] ELSE bytes[CHOOSE e \in hits : TRUE]]

\* one past the highest index those n stores write
CopyEnd(off, n) == BigMin(BigAdd(off, n), U32Limit)

Alloc(na, b) == [na EXCEPT ![b] = @ + 1]

\* delete[] p: a null pointer (never allocated) is left alone
Delete(nf, na, b) == IF na[b] = 0 THEN nf ELSE [nf EXCEPT ![b] = @ + 1]

NoImage == [format |-> "none", fn |-> "none", paletteNull |-> TRUE, src |-> <<>>]

----------------------------------------------------------------------------
(* io::IReadFile, for a cursor past the header *)

\* the bytes file->read(buf, n) delivers, n an Int
Read(f, n) == Prefix(f.body, n)

\* the same for a limb-pair n
ReadBig(f, n) ==
    IF BigLE(Big(Len(f.body)), n) THEN f.body ELSE SubSeq(f.body, 1, BigToInt(n))

\* the file once the cursor has moved n bytes on
Advance(f, n) ==
    [f EXCEPT !.body = IF n >= Len(@) THEN <<>> ELSE SubSeq(@, n + 1, Len(@))]

----------------------------------------------------------------------------
(* Inputs *)

\* the byte values pixel streams are built from: raw packets of 1 and 2 pixels
\* (0, 1), run packets of 1, 2 and 3 pixels (128, 129, 130)
ByteVals == {0, 1, 128, 129, 130}

RECURSIVE SeqsUpTo(_)
SeqsUpTo(n) ==
    IF n = 0 THEN {<<>>}
    ELSE LET shorter == SeqsUpTo(n - 1)
         IN  shorter \cup {Append(s, b) : s \in {t \in shorter : Len(t) = n - 1}, b \in ByteVals}

Bodies == SeqsUpTo(MaxStream)

\* IImageLoader::checkImageDimensions accepts widths and heights up to this
MaxImageDim == 23000

checkImageDimensions(width, height) == width <= MaxImageDim /\ height <= MaxImageDim

Hdr(id, cmt, ty, cml, cmes, w, h, d, desc) ==
    [IdLength |-> id, ColorMapType |-> cmt, ImageType |-> ty, ColorMapLength |-> cml,
     ColorMapEntrySize |-> cmes, ImageWidth |-> w, ImageHeight |-> h,
     PixelDepth |-> d, ImageDescriptor |-> desc]

\* sizeof(STGAHeader)
HeaderSize == 18

\* the value of the header fields where no header lies ahead of the cursor
NoHeader == Hdr(0, 0, 0, 0, 0, 0, 0, 0, 0)

\* STGAFooter.Signature: "TRUEVISION-XFILE." and its terminating 0
Signature == <<84, 82, 85, 69, 86, 73, 83, 73, 79, 78, 45, 88, 70, 73, 76, 69, 46, 0>>

\* a TGA 2.0 footer: ExtensionOffset, DeveloperOffset (both 0) and the signature
TGAFooter == <<0, 0, 0, 0, 0, 0, 0, 0>> \o Signature

\* 1, 2, 3: uncompressed; 10: run-length encoded; 4: not supported
ImageTypes == {1, 2, 3, 4, 10}

\* 8, 16, 32: supported (1, 2, 4 bytes per pixel); 12: not supported (1 byte per pixel)
PixelDepths == {8, 12, 16, 32}

Dims == (1 .. MaxDim) \cup {MaxImageDim + 1}

\* headers without a color map
PixelHeaders ==
    {Hdr(0, 0, ty, 0, 0, w, h, d, 0) : ty \in ImageTypes, w \in Dims, h \in Dims, d \in PixelDepths}

\* headers with a color map (and an image identification field or none), of an
\* accepted or an oversize height, of a supported or an unsupported pixel depth
MapHeaders ==
    {Hdr(id, 1, ty, cml, cmes, 1, h, d, 32) :
        id \in {0, 1}, ty \in {1, 4, 10}, cml \in 0 .. 2, cmes \in {15, 16, 24, 32},
        h \in {1, MaxImageDim + 1}, d \in {8, 12}}

Headers == PixelHeaders \cup MapHeaders

\* every value the 18 bytes of a header can hold
AllHeaders ==
    [IdLength : 0 .. 255, ColorMapType : 0 .. 255, ImageType : 0 .. 255,
     ColorMapLength : 0 .. 65535, ColorMapEntrySize : 0 .. 255, ImageWidth : 0 .. 65535,
     ImageHeight : 0 .. 65535, PixelDepth : 0 .. 255, ImageDescriptor : 0 .. 255]

\* a file of a header, the bytes b and a footer or none, with the cursor at 0
FileOf(h, b, ft) ==
    [hasHeader |-> TRUE, hdr |-> h, body |-> b \o (IF ft THEN TGAFooter ELSE <<>>),
     size |-> HeaderSize + Len(b) + (IF ft THEN Len(TGAFooter) ELSE 0), footer |-> ft]

\* the file of no byte at all
EmptyFile == [hasHeader |-> FALSE, hdr |-> NoHeader, body |-> <<>>, size |-> 0, footer |-> FALSE]

Files == {FileOf(h, b, ft) : h \in Headers, b \in Bodies, ft \in BOOLEAN}

----------------------------------------------------------------------------
(* isALoadableFileFormat *)

\* file->seek(file->getSize() - sizeof(STGAFooter)); file->read(&footer, sizeof(STGAFooter)):
\* the read ends at the end of the file, and the signature compares equal when
\* the file ends in a footer.  (In a file without one the 18 bytes compared
\* would have to spell the signature, and no header or pixel stream of Files
\* does; in a file shorter than a footer the read delivers what the file holds.)
IsALoadableFileFormat ==
    /\ pc = "start"
    /\ file' = [file EXCEPT !.hasHeader = FALSE, !.hdr = NoHeader, !.body = <<>>]
    /\ pos' = file.size
    /\ loadable' = file.footer
    /\ UNCHANGED <<pc, header, palette, colorMap, data, imageSize, currentByte, nalloc, nfree,
                   log, result, image, gotHeader, headerEnd, stream, shortRead, maxWrite,
                   overrun, iters>>

----------------------------------------------------------------------------
(* loadImage *)

\* the state loadImage is entered in, on one of the given files
LoadImageEntry(files) ==
    /\ file \in files
    /\ pos = 0
    /\ pc = "start"
    /\ header = NoHeader
    /\ palette = <<>>
    /\ colorMap = <<>>
    /\ data = <<>>
    /\ imageSize = Big(0)
    /\ currentByte = Big(0)
    /\ nalloc = [b \in Buffers |-> 0]
    /\ nfree = [b \in Buffers |-> 0]
    /\ log = <<>>
    /\ result = "pending"
    /\ image = NoImage
    /\ loadable = "notCalled"
    /\ gotHeader = FALSE
    /\ headerEnd = 0
    /\ stream = <<>>
    /\ shortRead = FALSE
    /\ maxWrite = Big(0)
    /\ overrun = [kind |-> "none", at |-> Big(0)]
    /\ iters = 0

Init == LoadImageEntry(Files)

\* file->read(&header, sizeof(STGAHeader)) at the cursor.  Where no header lies
\* ahead (an empty file, or the cursor at the end of the file) nothing is
\* delivered and the local header, which has no initialiser, holds any 18 bytes.
ReadHeader ==
    /\ pc = "start"
    /\ IF file.hasHeader
       THEN /\ header' = file.hdr
            /\ file' = [file EXCEPT !.hasHeader = FALSE, !.hdr = NoHeader]
            /\ pos' = pos + HeaderSize
            /\ gotHeader' = TRUE
            /\ shortRead' = FALSE
       ELSE /\ header' \in AllHeaders
            /\ gotHeader' = FALSE
            /\ shortRead' = TRUE
            /\ UNCHANGED <<file, pos>>
    /\ headerEnd' = pos'
    /\ pc' = "check"
    /\ UNCHANGED <<palette, colorMap, data, imageSize, currentByte, nalloc, nfree, log,
                   result, image, loadable, stream, maxWrite, overrun, iters>>

DimensionsRejectedWidthTwice(h) == ~checkImageDimensions(h.ImageWidth, h.ImageWidth)

DimensionsRejected(h) == ~checkImageDimensions(h.ImageWidth, h.ImageHeight)

CheckDims ==
    /\ pc = "check"
    /\ IF DimensionsRejected(header)
       THEN /\ log' = Append(log, [msg |-> "Image dimensions too large in file", level |-> "ELL_ERROR"])
            /\ result' = "absent"
            /\ pc' = "done"
       ELSE /\ pc' = "skipId"
            /\ UNCHANGED <<log, result>>
    /\ UNCHANGED <<file, pos, header, palette, colorMap, data, imageSize, currentByte,
                   nalloc, nfree, image, loadable, gotHeader, headerEnd, stream, shortRead,
                   maxWrite, overrun, iters>>

\* if (header.IdLength) file->seek(header.IdLength, true)
SkipId ==
    /\ pc = "skipId"
    /\ pos' = IF header.IdLength # 0 THEN pos + header.IdLength ELSE pos
    /\ file' = IF header.IdLength # 0 THEN Advance(file, header.IdLength) ELSE file
    /\ pc' = IF header.ColorMapType # 0 THEN "palette" ELSE "readImage"
    /\ UNCHANGED <<header, palette, colorMap, data, imageSize, currentByte, nalloc, nfree,
                   log, result, image, loadable, gotHeader, headerEnd, stream, shortRead,
                   maxWrite, overrun, iters>>

\* video::SColor(255, 255, 0, 205): bright magenta
errorCol == <<255, 255, 0, 205>>

\* palette = new u32[paletteSize], then the slots from ColorMapLength up get errorCol
AllocPalette ==
    /\ pc = "palette"
    /\ LET paletteSize == MAX(256, header.ColorMapLength)
       IN  palette' = [i \in 0 .. paletteSize - 1 |->
                          IF paletteSize > header.ColorMapLength /\ i >= header.ColorMapLength
                          THEN errorCol ELSE PalUnset]
    /\ nalloc' = Alloc(nalloc, "palette")
    /\ pc' = "readColorMap"
    /\ UNCHANGED <<file, pos, header, colorMap, data, imageSize, currentByte, nfree, log,
                   result, image, loadable, gotHeader, headerEnd, stream, shortRead,
                   maxWrite, overrun, iters>>

\* colorMap = new u8[EntrySize / 8 * Length]; file->read(colorMap, that many)
ReadColorMap ==
    /\ pc = "readColorMap"
    /\ LET n   == (header.ColorMapEntrySize \div 8) * header.ColorMapLength
           got == Read(file, n)
       IN  /\ colorMap' = Store(NewBytes(n), Big(0), got)
           /\ pos' = pos + Len(got)
           /\ file' = Advance(file, Len(got))
           /\ shortRead' = (shortRead \/ Len(got) < n)
    /\ nalloc' = Alloc(nalloc, "colorMap")
    /\ pc' = "convertColorMap"
    /\ UNCHANGED <<header, palette, data, imageSize, currentByte, nfree, log, result,
                   image, loadable, gotHeader, headerEnd, stream, maxWrite, overrun, iters>>

\* CColorConverter::convert_A1R5G5B5toA8R8G8B8 on one little-endian 16-bit entry:
\* 1-bit alpha, 5-5-5 color, each 5-bit channel widened to 8 bits
A1R5G5B5toA8R8G8B8(lo, hi) ==
    IF lo = Uninit \/ hi = Uninit THEN PalUnset
    ELSE LET c  == lo + 256 * hi
             r5 == (c \div 1024) % 32
             g5 == (c \div 32) % 32
             b5 == c % 32
         IN  <<IF c >= 32768 THEN 255 ELSE 0,
               r5 * 8 + (r5 \div 4), g5 * 8 + (g5 \div 4), b5 * 8 + (b5 \div 4)>>

convert_A1R5G5B5toA8R8G8B8(src, n, dst) ==
    [i \in DOMAIN dst |-> IF i < n THEN A1R5G5B5toA8R8G8B8(src[2 * i], src[2 * i + 1]) ELSE dst[i]]

\* dst[i] = 0xff000000 | (bgr[2] << 16) | (bgr[1] << 8) | bgr[0]
convert_BGR8_to_SColor(src, n, dst) ==
    [i \in DOMAIN dst |->
        IF i < n THEN <<255, src[3 * i + 2], src[3 * i + 1], src[3 * i]>> ELSE dst[i]]

\* dst[i] = (bgra[3] << 24) | (bgra[2] << 16) | (bgra[1] << 8) | bgra[0]
convert_BGRA8_to_SColor(src, n, dst) ==
    [i \in DOMAIN dst |->
        IF i < n THEN <<src[4 * i + 3], src[4 * i + 2], src[4 * i + 1], src[4 * i]>> ELSE dst[i]]

\* switch (header.ColorMapEntrySize): any other entry size converts nothing
ConvertedPalette(h, cm, pal) ==
    CASE h.ColorMapEntrySize = 16 -> convert_A1R5G5B5toA8R8G8B8(cm, h.ColorMapLength, pal)
      [] h.ColorMapEntrySize = 24 -> convert_BGR8_to_SColor(cm, h.ColorMapLength, pal)
      [] h.ColorMapEntrySize = 32 -> convert_BGRA8_to_SColor(cm, h.ColorMapLength, pal)
      [] OTHER -> pal

ConvertColorMap ==
    /\ pc = "convertColorMap"
    /\ palette' = ConvertedPalette(header, colorMap, palette)
    /\ nfree' = Delete(nfree, nalloc, "colorMap")
    /\ pc' = "readImage"
    /\ UNCHANGED <<file, pos, header, colorMap, data, imageSize, currentByte, nalloc, log,
                   result, image, loadable, gotHeader, headerEnd, stream, shortRead,
                   maxWrite, overrun, iters>>

bytesPerPixel(h) == h.PixelDepth \div 8

\* header.ImageHeight * header.ImageWidth * bytesPerPixel, exactly
ExactImageSize(h) == BigMul(h.ImageHeight * h.ImageWidth, bytesPerPixel(h))

\* the product as the uncompressed path computes it, in int: an overflow is
\* undefined, and a build either wraps or traps
S32ImageSizes(h) ==
    IF FitsS32(ExactImageSize(h)) THEN {[size |-> ExactImageSize(h), trap |-> FALSE]}
    ELSE {[size |-> Wrap32(ExactImageSize(h)), trap |-> FALSE],
          [size |-> Wrap32(ExactImageSize(h)), trap |-> TRUE]}

\* the product as loadCompressedImage computes it, in u32
U32ImageSize(h) == Wrap32(ExactImageSize(h))

\* image types 1, 2, 3: data = new u8[imageSize]; file->read(data, imageSize).
\* A negative s32 size makes new[] throw.
ReadUncompressed ==
    /\ pc = "readImage"
    /\ header.ImageType \in {1, 2, 3}
    /\ \E o \in S32ImageSizes(header) :
          /\ imageSize' = o.size
          /\ IF o.trap \/ ~FitsS32(o.size)
             THEN /\ pc' = "aborted"
                  /\ UNCHANGED <<data, file, pos, nalloc, shortRead, maxWrite>>
             ELSE LET got == ReadBig(file, o.size)
                  IN  /\ data' = Store(NewBytes(WindowLen(o.size)), Big(0), got)
                      /\ pos' = pos + Len(got)
                      /\ file' = Advance(file, Len(got))
                      /\ shortRead' = (shortRead \/ BigLT(Big(Len(got)), o.size))
                      /\ maxWrite' = Big(Len(got))
                      /\ nalloc' = Alloc(nalloc, "data")
                      /\ pc' = "convert"
    /\ UNCHANGED <<header, palette, colorMap, currentByte, nfree, log, result, image,
                   loadable, gotHeader, headerEnd, stream, overrun, iters>>

\* image type 10: loadCompressedImage up to its loop
EnterCompressed ==
    /\ pc = "readImage"
    /\ header.ImageType = 10
    /\ imageSize' = U32ImageSize(header)
    /\ data' = NewBytes(WindowLen(U32ImageSize(header)))
    /\ nalloc' = Alloc(nalloc, "data")
    /\ currentByte' = Big(0)
    /\ stream' = Prefix(file.body, StreamWindow)
    /\ pc' = "rleLoop"
    /\ UNCHANGED <<file, pos, header, palette, colorMap, nfree, log, result, image,
                   loadable, gotHeader, headerEnd, shortRead, maxWrite, overrun, iters>>

LeakOnUnsupportedType(nf, na) == nf

\* delete[] palette on the unsupported-image-type return
FreeOnUnsupportedType(nf, na) == Delete(nf, na, "palette")

UnsupportedType ==
    /\ pc = "readImage"
    /\ header.ImageType \notin {1, 2, 3, 10}
    /\ log' = Append(log, [msg |-> "Unsupported TGA file type", level |-> "ELL_ERROR"])
    /\ nfree' = FreeOnUnsupportedType(nfree, nalloc)
    /\ result' = "absent"
    /\ pc' = "done"
    /\ UNCHANGED <<file, pos, header, palette, colorMap, data, imageSize, currentByte,
                   nalloc, image, loadable, gotHeader, headerEnd, stream, shortRead,
                   maxWrite, overrun, iters>>

----------------------------------------------------------------------------
(* loadCompressedImage *)

\* file->read(&chunkheader, sizeof(u8)) into u8 chunkheader = 0
ChunkHeaderBytes == Read(file, 1)

chunkheader == IF ChunkHeaderBytes = <<>> THEN 0 ELSE ChunkHeaderBytes[1]

\* currentByte + n as the code's u32 holds it
U32Add(cb, n) == Wrap32(BigAdd(cb, n))

\* if (currentByte + bytesToRead <= imageSize)
RawFits(cb, bytesToRead, size) == BigLE(U32Add(cb, bytesToRead), size)

\* if (dataOffset + bytesPerPixel < imageSize)
SampleFits(dataOffset, bpp, size) == BigLT(U32Add(dataOffset, bpp), size)

\* if (currentByte + bytesPerPixel <= imageSize)
CopyFits(cb, bpp, size) == BigLE(U32Add(cb, bpp), size)

\* whether storing n bytes at offset cb would go past a buffer of the given size
PastEnd(cb, n, size) == BigLT(size, BigAdd(cb, n))

\* the first step that would have written past the buffer is kept
NoteOverrun(ov, kind, cb) == IF ov.kind = "none" THEN [kind |-> kind, at |-> cb] ELSE ov

\* where the loop may go after storing up to offset end: a store past the
\* allocation is undefined, and the run either goes on or is lost ("corrupt")
AfterStore(end, size) == IF BigLT(size, end) THEN {"rleLoop", "corrupt"} ELSE {"rleLoop"}

\* data[dataOffset + e], the index computed in u32: a byte the model keeps, or
\* else the byte the sample read put there (got), or one never written
SampleByte(buf, got, dataOffset, e) ==
    LET exact == BigAdd(dataOffset, e)
        idx   == Wrap32(exact)
    IN  IF idx[1] = 0 /\ idx[2] \in DOMAIN buf THEN buf[idx[2]]
        ELSE IF exact = idx /\ e < Len(got) THEN got[e + 1]
        ELSE Uninit

WarnRaw == [msg |-> "Compressed TGA file RAW chunk tries writing beyond buffer", level |-> "ELL_WARNING"]

WarnRLE == [msg |-> "Compressed TGA file RLE headertries writing beyond buffer", level |-> "ELL_WARNING"]

\* while (currentByte < imageSize) fails: return data
RLELoopExit ==
    /\ pc = "rleLoop"
    /\ ~BigLT(currentByte, imageSize)
    /\ pc' = "convert"
    /\ UNCHANGED <<file, pos, header, palette, colorMap, data, imageSize, currentByte,
                   nalloc, nfree, log, result, image, loadable, gotHeader, headerEnd, stream,
                   shortRead, maxWrite, overrun, iters>>

\* one loop iteration on a 'RAW' chunk (chunkheader < 128)
RawChunk ==
    /\ pc = "rleLoop"
    /\ BigLT(currentByte, imageSize)
    /\ iters < MaxPackets
    /\ chunkheader < 128
    /\ LET bytesToRead == bytesPerPixel(header) * (chunkheader + 1)
           file1       == Advance(file, Len(ChunkHeaderBytes))
           pos1        == pos + Len(ChunkHeaderBytes)
           got         == Read(file1, bytesToRead)
       IN  /\ overrun' = IF PastEnd(currentByte, bytesToRead, imageSize)
                         THEN NoteOverrun(overrun, "raw", currentByte) ELSE overrun
           /\ IF RawFits(currentByte, bytesToRead, imageSize)
              THEN /\ data' = Store(data, currentByte, got)
                   /\ pos' = pos1 + Len(got)
                   /\ file' = Advance(file1, Len(got))
                   /\ currentByte' = U32Add(currentByte, bytesToRead)
                   /\ maxWrite' = IF got = <<>> THEN maxWrite
                                  ELSE BigMax(maxWrite, BigAdd(currentByte, Len(got)))
                   /\ shortRead' = (shortRead \/ ChunkHeaderBytes = <<>> \/ Len(got) < bytesToRead)
                   /\ pc' \in AfterStore(BigAdd(currentByte, Len(got)), imageSize)
                   /\ log' = log
              ELSE /\ log' = Append(log, WarnRaw)
                   /\ pos' = pos1
                   /\ file' = file1
                   /\ shortRead' = (shortRead \/ ChunkHeaderBytes = <<>>)
                   /\ pc' = "convert"
                   /\ UNCHANGED <<data, currentByte, maxWrite>>
    /\ iters' = iters + 1
    /\ UNCHANGED <<header, palette, colorMap, imageSize, nalloc, nfree, result, image,
                   loadable, gotHeader, headerEnd, stream>>

\* for (counter = 1; counter < chunkheader; counter++): the sample at dataOffset
\* is copied to currentByte byte by byte if it fits, and currentByte advances
\* either way.  st = [data, currentByte, maxWrite, overrun]; got = the bytes the
\* sample read delivered
RECURSIVE RunCopies(_, _, _, _, _, _, _)
RunCopies(st, counter, count, dataOffset, got, bpp, size) ==
    IF ~(counter < count) THEN st
    ELSE LET sample == [e \in 1 .. bpp |-> SampleByte(st.data, got, dataOffset, e - 1)]
             fits   == CopyFits(st.currentByte, bpp, size)
             next   == [data        |-> IF fits THEN StoreWrapped(st.data, st.currentByte, sample)
                                        ELSE st.data,
                        currentByte |-> U32Add(st.currentByte, bpp),
                        maxWrite    |-> IF fits
                                        THEN BigMax(st.maxWrite, CopyEnd(st.currentByte, bpp))
                                        ELSE st.maxWrite,
                        overrun     |-> IF PastEnd(st.currentByte, bpp, size)
                                        THEN NoteOverrun(st.overrun, "copy", st.currentByte)
                                        ELSE st.overrun]
         IN  RunCopies(next, counter + 1, count, dataOffset, got, bpp, size)

\* one loop iteration on an RLE chunk (chunkheader >= 128)
RLEChunk ==
    /\ pc = "rleLoop"
    /\ BigLT(currentByte, imageSize)
    /\ iters < MaxPackets
    /\ chunkheader >= 128
    /\ LET count      == chunkheader - 127
           bpp        == bytesPerPixel(header)
           dataOffset == currentByte
           file1      == Advance(file, Len(ChunkHeaderBytes))
           pos1       == pos + Len(ChunkHeaderBytes)
           got        == Read(file1, bpp)
           ov1        == IF PastEnd(dataOffset, bpp, imageSize)
                         THEN NoteOverrun(overrun, "sample", dataOffset) ELSE overrun
           st         == RunCopies([data        |-> Store(data, dataOffset, got),
                                    currentByte |-> U32Add(currentByte, bpp),
                                    maxWrite    |-> IF got = <<>> THEN maxWrite
                                                    ELSE BigMax(maxWrite, BigAdd(dataOffset, Len(got))),
                                    overrun     |-> ov1],
                                   1, count, dataOffset, got, bpp, imageSize)
       IN  IF SampleFits(dataOffset, bpp, imageSize)
           THEN /\ data' = st.data
                /\ currentByte' = st.currentByte
                /\ maxWrite' = st.maxWrite
                /\ overrun' = st.overrun
                /\ pos' = pos1 + Len(got)
                /\ file' = Advance(file1, Len(got))
                /\ shortRead' = (shortRead \/ Len(got) < bpp)
                /\ pc' \in AfterStore(st.maxWrite, imageSize)
                /\ log' = log
           ELSE /\ log' = Append(log, WarnRLE)
                /\ overrun' = ov1
                /\ pos' = pos1
                /\ file' = file1
                /\ pc' = "convert"
                /\ UNCHANGED <<data, currentByte, maxWrite, shortRead>>
    /\ iters' = iters + 1
    /\ UNCHANGED <<header, palette, colorMap, imageSize, nalloc, nfree, result, image,
                   loadable, gotHeader, headerEnd, stream>>

----------------------------------------------------------------------------
(* loadImage: switch (header.PixelDepth), the deletes and the return *)

\* the CImage built for a pixel depth and image type, and the CColorConverter
\* routine that fills it from data (and from the palette pointer, null or not)
ConvertedImage(h, buf, paletteIsNull) ==
    CASE h.PixelDepth = 8 /\ h.ImageType = 3 ->
            [format |-> "ECF_R8G8B8", fn |-> "convert8BitTo24Bit", paletteNull |-> TRUE, src |-> buf]
      [] h.PixelDepth = 8 /\ h.ImageType # 3 ->
            [format |-> "ECF_A8R8G8B8", fn |-> "convert8BitTo32Bit", paletteNull |-> paletteIsNull, src |-> buf]
      [] h.PixelDepth = 16 ->
            [format |-> "ECF_A1R5G5B5", fn |-> "convert16BitTo16Bit", paletteNull |-> TRUE, src |-> buf]
      [] h.PixelDepth = 24 ->
            [format |-> "ECF_R8G8B8", fn |-> "convert24BitTo24Bit", paletteNull |-> TRUE, src |-> buf]
      [] h.PixelDepth = 32 ->
            [format |-> "ECF_A8R8G8B8", fn |-> "convert32BitTo32Bit", paletteNull |-> TRUE, src |-> buf]
      [] OTHER -> NoImage

Convert ==
    /\ pc = "convert"
    /\ image' = ConvertedImage(header, data, nalloc["palette"] = 0)
    /\ IF image' = NoImage
       THEN /\ log' = Append(log, [msg |-> "Unsupported TGA format", level |-> "ELL_ERROR"])
            /\ result' = "absent"
            /\ nalloc' = nalloc
       ELSE /\ log' = log
            /\ result' = "image"
            /\ nalloc' = Alloc(nalloc, "image")
    /\ nfree' = Delete(Delete(nfree, nalloc, "data"), nalloc, "palette")
    /\ pc' = "done"
    /\ UNCHANGED <<file, pos, header, palette, colorMap, data, imageSize, currentByte,
                   loadable, gotHeader, headerEnd, stream, shortRead, maxWrite, overrun, iters>>

----------------------------------------------------------------------------

Next ==
    \/ ReadHeader
    \/ CheckDims
    \/ SkipId
    \/ AllocPalette
    \/ ReadColorMap
    \/ ConvertColorMap
    \/ ReadUncompressed
    \/ EnterCompressed
    \/ UnsupportedType
    \/ RLELoopExit
    \/ RawChunk
    \/ RLEChunk
    \/ Convert

Spec == Init /\ [][Next]_vars

\* isALoadableFileFormat on any file, the empty one included.  A loadImage
\* that follows it without a rewind starts at ReadHeader with no header ahead
\* of the cursor; its header is then any member of AllHeaders, a set too
\* large to enumerate, and no specification here follows such a call.
InitSniff == LoadImageEntry(Files \cup {EmptyFile})

NextSniff == IsALoadableFileFormat

SpecSniff == InitSniff /\ [][NextSniff]_vars

----------------------------------------------------------------------------
(* The TGA run-length format, as the format defines it (reference for C2) *)

\* the pixel stream the RLE loop was entered on: what lay ahead of the cursor,
\* less the footer the file may end in
PixelStream(s) ==
    IF Len(s) >= Len(TGAFooter) /\ SubSeq(s, Len(s) - Len(TGAFooter) + 1, Len(s)) = TGAFooter
    THEN SubSeq(s, 1, Len(s) - Len(TGAFooter))
    ELSE s

PacketPixels(b) == IF b < 128 THEN b + 1 ELSE b - 127

PacketBytes(b, bpp) == IF b < 128 THEN 1 + (b + 1) * bpp ELSE 1 + bpp

\* s is a sequence of whole packets whose pixel counts sum to exactly npix
RECURSIVE WellFormedRLE(_, _, _)
WellFormedRLE(s, bpp, npix) ==
    IF s = <<>> THEN npix = 0
    ELSE /\ PacketPixels(s[1]) <= npix
         /\ PacketBytes(s[1], bpp) <= Len(s)
         /\ WellFormedRLE(SubSeq(s, PacketBytes(s[1], bpp) + 1, Len(s)), bpp,
                          npix - PacketPixels(s[1]))

\* the pixel bytes a well-formed stream stands for
RECURSIVE LogicalPixels(_, _)
LogicalPixels(s, bpp) ==
    IF s = <<>> THEN <<>>
    ELSE (IF s[1] < 128 THEN SubSeq(s, 2, PacketBytes(s[1], bpp))
          ELSE Repeat(SubSeq(s, 2, 1 + bpp), PacketPixels(s[1])))
         \o LogicalPixels(SubSeq(s, PacketBytes(s[1], bpp) + 1, Len(s)), bpp)

\* the buffer the uncompressed path reads from a cursor with these pixel bytes ahead
UncompressedBuffer(h, bytes) ==
    Store(NewBytes(WindowLen(ExactImageSize(h))), Big(0),
          ReadBig([body |-> bytes], ExactImageSize(h)))

----------------------------------------------------------------------------
(* Claims checked under Spec *)

Supported(h) == h.PixelDepth \in {8, 16, 24, 32}

\* C2: for a well-formed RLE stream (whole packets summing to width*height
\* pixels, any packet kind last), the buffer loadCompressedImage returns equals
\* the buffer the uncompressed path reads for the same pixels.
C2_RleEqualsUncompressed ==
    (/\ pc = "convert"
     /\ gotHeader
     /\ header.ImageType = 10
     /\ Supported(header)
     /\ WellFormedRLE(PixelStream(stream), bytesPerPixel(header),
                      header.ImageWidth * header.ImageHeight))
    => data = UncompressedBuffer(header, LogicalPixels(PixelStream(stream), bytesPerPixel(header)))

NothingAllocated == \A b \in Buffers : nalloc[b] = 0

\* C3: in a call whose header read delivered the header, nothing is allocated,
\* read or skipped before the dimension check has passed; and a width or
\* height over the maximum means the call is at the check or at its return,
\* with nothing allocated, nothing after the header read or skipped, and, at
\* the return, the absent result and the one error logged.
C3_RejectedBeforeAnyAllocation ==
    /\ pc = "start" => NothingAllocated
    /\ gotHeader =>
         /\ pc = "check" => (NothingAllocated /\ pos = headerEnd)
         /\ ~checkImageDimensions(header.ImageWidth, header.ImageHeight)
            => /\ pc \in {"check", "done"}
               /\ NothingAllocated
               /\ pos = headerEnd
               /\ pc = "done" =>
                    /\ result = "absent"
                    /\ log = <<[msg |-> "Image dimensions too large in file", level |-> "ELL_ERROR"]>>

C3_Witness ==
    /\ pc = "done"
    /\ gotHeader
    /\ pos = HeaderSize
    /\ file.body # <<>>
    /\ header.ColorMapType # 0
    /\ header.ImageHeight > MaxImageDim
    /\ header.ImageWidth <= MaxImageDim
    /\ NothingAllocated
    /\ result = "absent"

\* C4: in a call whose header read delivered the header, at every return of
\* loadImage the palette, the color-map buffer and the pixel buffer have each
\* been freed exactly as often as allocated (at most once); only a returned
\* image stays allocated; and an unsupported image type returns the absent
\* result with no pixel buffer allocated.
C4_BuffersFreedOnEveryReturn ==
    (gotHeader /\ pc = "done")
    => /\ \A b \in {"palette", "colorMap", "data"} : nalloc[b] <= 1 /\ nfree[b] = nalloc[b]
       /\ nfree["image"] = 0
       /\ nalloc["image"] = (IF result = "image" THEN 1 ELSE 0)
       /\ (checkImageDimensions(header.ImageWidth, header.ImageHeight)
           /\ header.ImageType \notin {1, 2, 3, 10})
          => (result = "absent" /\ nalloc["data"] = 0)

C4_Witness ==
    /\ pc = "done"
    /\ gotHeader
    /\ header.ImageType = 4
    /\ nalloc["palette"] = 1
    /\ nfree["palette"] = 1
    /\ result = "absent"

\* C5: after the palette is built from a fully read color map with 15-, 16-,
\* 24- or 32-bit entries, it has max(256, length) slots, every slot below the
\* declared length holds a converted color (none is left unset), and every
\* slot from the declared length up to 256 holds the sentinel.
C5_PaletteFullySet ==
    (/\ pc = "readImage"
     /\ header.ColorMapType # 0
     /\ header.ColorMapEntrySize \in {15, 16, 24, 32}
     /\ ~shortRead)
    => /\ DOMAIN palette = 0 .. MAX(256, header.ColorMapLength) - 1
       /\ \A i \in 0 .. header.ColorMapLength - 1 :
             \A ch \in 1 .. 4 : palette[i][ch] \in 0 .. 255
       /\ \A i \in header.ColorMapLength .. 255 : palette[i] = errorCol

\* C6: a short read makes loadImage return the absent result with a
\* diagnostic logged.  Stated for calls whose header read delivered the whole
\* header, where the short read is that of the color map or of an uncompressed
\* image (types 1, 2, 3); the header read is unchecked in the same way.
C6_ShortReadReported ==
    (pc = "done" /\ shortRead /\ gotHeader /\ header.ImageType # 10)
    => (result = "absent" /\ log # <<>>)

\* C8: whichever RLE step first would have written past the buffer (raw bulk
\* read, run sample read, or one of a run's copies), decoding has stopped
\* there: the write offset is the one of that step, the loop is left, and a
\* warning is logged.  Stated for calls whose header read delivered the whole
\* header.
C8_EveryStepStops ==
    (gotHeader /\ overrun.kind # "none")
    => /\ currentByte = overrun.at
       /\ pc \in {"convert", "done"}
       /\ \E i \in DOMAIN log : log[i].level = "ELL_WARNING"

\* C10: the 8-bit palette lookup (convert8BitTo32Bit) is only ever called with
\* a palette built in this call, of at least 256 slots.  Stated for calls whose
\* header read delivered the whole header.
C10_LookupHasPalette ==
    (gotHeader /\ image.fn = "convert8BitTo32Bit")
    => (~image.paletteNull /\ Cardinality(DOMAIN palette) >= 256)

----------------------------------------------------------------------------
(* Buffer sizes over the whole range of accepted dimensions and of the
   pixel-depth byte: loadImage up to the allocation of the pixel buffer *)

\* widths and heights at and near the accepted maximum
SizeDims == {1, 6342, 21846, MaxImageDim, MaxImageDim + 1}

SizeHeaders ==
    {Hdr(0, 0, ty, 0, 0, w, h, d, 0) : ty \in {2, 10}, w \in SizeDims, h \in SizeDims, d \in 0 .. 255}

InitSize == LoadImageEntry({FileOf(h, <<>>, FALSE) : h \in SizeHeaders})

NextSize ==
    \/ ReadHeader
    \/ CheckDims
    \/ SkipId
    \/ ReadUncompressed
    \/ EnterCompressed

SpecSize == InitSize /\ [][NextSize]_vars

\* C7: for a header that passed the dimension check, the size the pixel buffer
\* is allocated with (and the RLE loop runs to) is the exact product
\* width * height * (pixelDepth / 8), whatever the pixel-depth byte is.
C7_SizeIsExactProduct ==
    pc \in {"convert", "rleLoop", "aborted"} => imageSize = ExactImageSize(header)

----------------------------------------------------------------------------
(* loadCompressedImage near the end of a buffer of almost 2^32 bytes.

   Header: 6342 x 21846 pixels (both accepted), pixel depth 248, so
   bytesPerPixel = 31 and imageSize = 6342 * 21846 * 31 = 4294967292 = 2^32 - 4,
   which a u32 holds exactly.  The loop is entered with currentByte = 0; each
   run packet <<255, 31 zero bytes>> passes the guards and moves currentByte
   up by 128 * 31 = 3968, so 1082401 of them bring it to 4294967168, 4 pixels
   from the end, and a shorter run packet after them (or in place of the last
   of them) leaves any smaller (or larger) number of pixels.  InitWrap is the
   loop state reached then, with k pixels left: currentByte = imageSize - 31 * k,
   the buffer written up to there, the cursor behind the packets read, and
   file.body the bytes of the stream that follow. *)

WrapHeader == Hdr(0, 0, 10, 0, 0, 6342, 21846, 248, 0)

\* the pixels the buffer holds: 138547332
WrapPixels == WrapHeader.ImageWidth * WrapHeader.ImageHeight

\* pixels left to decode in the states InitWrap starts from
MaxLeft == 4

\* a run packet of n pixels, all bytes 0
ZeroRun(n) == <<127 + n>> \o Repeat(<<0>>, bytesPerPixel(WrapHeader))

\* the packets that leave k pixels: full runs of 128 pixels and one shorter run
WrapFullRuns(k) == (WrapPixels - k) \div 128

WrapLastRun(k) == (WrapPixels - k) % 128

\* the bytes of those packets
WrapPrefixLen(k) ==
    (WrapFullRuns(k) + (IF WrapLastRun(k) = 0 THEN 0 ELSE 1)) * Len(ZeroRun(128))

Fill(n) == Repeat(<<7>>, n)

\* a packet header and 0, 1 or 2 pixels of data, whole or one byte short or long
WrapTails == {<<b>> \o Fill(n) : b \in ByteVals, n \in {0, 30, 31, 32, 61, 62, 63}}

InitWrap ==
    /\ \E k \in 1 .. MaxLeft, t \in WrapTails :
          /\ file = [hasHeader |-> FALSE, hdr |-> NoHeader, body |-> t,
                     size |-> HeaderSize + WrapPrefixLen(k) + Len(t), footer |-> FALSE]
          /\ pos = HeaderSize + WrapPrefixLen(k)
          /\ currentByte = BigMul(WrapPixels - k, bytesPerPixel(WrapHeader))
          /\ maxWrite = currentByte
    /\ pc = "rleLoop"
    /\ header = WrapHeader
    /\ palette = <<>>
    /\ colorMap = <<>>
    /\ imageSize = U32ImageSize(WrapHeader)
    /\ data = [i \in 0 .. WindowLen(imageSize) - 1 |-> 0]
    /\ nalloc = [b \in Buffers |-> IF b = "data" THEN 1 ELSE 0]
    /\ nfree = [b \in Buffers |-> 0]
    /\ log = <<>>
    /\ result = "pending"
    /\ image = NoImage
    /\ loadable = "notCalled"
    /\ gotHeader = TRUE
    /\ headerEnd = HeaderSize
    /\ stream = Prefix(ZeroRun(128) \o ZeroRun(128), StreamWindow)
    /\ shortRead = FALSE
    /\ overrun = [kind |-> "none", at |-> Big(0)]
    /\ iters = 0

NextWrap ==
    \/ RLELoopExit
    \/ RawChunk
    \/ RLEChunk

SpecWrap == InitWrap /\ [][NextWrap]_vars

\* C1: every byte loadCompressedImage has written into the buffer lies at an
\* index below imageSize, the size the buffer was allocated with.  Stated for
\* streams that delivered every byte asked of them; truncated ones are no better.
C1_WritesInBounds ==
    (pc \in {"rleLoop", "convert", "corrupt"} /\ ~shortRead) => BigLE(maxWrite, imageSize)

\* C9: every packet the loop consumes either ends the loop through a break or
\* moves the write offset up by at least one pixel, and so the loop consumes at
\* most width * height packets.
C9_EveryPacketAdvances ==
    [][iters' = iters + 1 =>
         (\/ pc' = "convert"
          \/ BigLE(BigAdd(currentByte, bytesPerPixel(header)), currentByte'))]_vars

====
